---- MODULE Spec2Model ----
(***************************************************************************)
(* Hall booking system: the server actions of app/actions (bookings,       *)
(* halls, food-items, themes, test) over the shared Prisma store.          *)
(*                                                                         *)
(* The store is the tables hall, foodItem, theme and booking.  Every       *)
(* server action is one atomic step of Spec; SpecConc splits createBooking *)
(* into its three awaited store calls so that requests interleave.         *)
(* A store call may throw (connection loss, constraint violation): every   *)
(* action takes the index of the store call that throws (0: none).         *)
(***************************************************************************)
EXTENDS Integers, Sequences, FiniteSets, TLC

\* ----------------------------------------------------------------- bounds
MaxHalls    == 2   \* hall ids handed out
MaxFoods    == 1   \* food item ids handed out
MaxThemes   == 1   \* theme ids handed out
MaxBookings == 2   \* booking rows
MaxDay      == 2   \* calendar days 1..MaxDay are in the future
DayTicks    == 2   \* clock ticks per calendar day (stands for 86400000 ms)
MaxOps      == 4   \* server actions per behaviour
MaxReqs     == 2   \* createBooking requests in flight together

\* ------------------------------------------------------- values and enums
Undefined == "<undefined>"   \* an optional argument or field left out
Null      == "<null>"        \* a nullable column holding NULL

TimeSlots       == {"Morning", "Evening", "Full Day"}
BookingStatuses == {"PENDING", "CONFIRMED", "COMPLETED", "CANCELLED"}
PaymentStatuses == {"PENDING", "PAID", "PARTIAL", "FAILED", "REFUNDED"}
ActiveStatuses  == {"CONFIRMED", "PENDING"}

NoTheme == [defined |-> FALSE, price |-> 0]
Theme(p) == [defined |-> TRUE, price |-> p]

\* the message of an Error thrown by the store client
StoreErrorMessage == "PrismaClientKnownRequestError"

VARIABLES
    halls,      \* hall table: id -> [basePrice, isActive]
    hallSeq,    \* hall ids handed out so far (ids are never reused)
    foodItems,  \* foodItem table: id -> [price, isAvailable]
    foodSeq,
    themes,     \* theme table: id -> [price, isAvailable]
    themeSeq,
    bookings,   \* booking table: id -> row; rows are never deleted
    reqs,       \* SpecConc: the createBooking requests in flight
    last,       \* the last finished call: its arguments and what it returned
    nops        \* calls made so far

vars == <<halls, hallSeq, foodItems, foodSeq, themes, themeSeq, bookings, reqs, last, nops>>

\* ------------------------------------------------------------------ dates
\* A Date is a tick count; day d spans d*DayTicks .. d*DayTicks + DayTicks-1.
DateOf(day, tick) == day * DayTicks + tick
DayOf(t) == t \div DayTicks
\* Date.prototype.setHours(0, 0, 0, 0): the start of the date's day
setHoursStart(t) == t - (t % DayTicks)
\* Date.prototype.setHours(23, 59, 59, 999): the last tick of the date's day
setHoursEnd(t) == t - (t % DayTicks) + (DayTicks - 1)
\* new Date() when the validation module was loaded: the start of day 1
SchemaNow == DateOf(1, 0)

\* -------------------------------------------------------- result envelope
Ok == [success |-> TRUE, error |-> "", thrown |-> FALSE]
Err(msg) == [success |-> FALSE, error |-> msg, thrown |-> FALSE]
\* the exception left the action: the caller gets no envelope at all
Thrown == [success |-> FALSE, error |-> StoreErrorMessage, thrown |-> TRUE]

Call(op, args, fault, res) ==
    [op |-> op, args |-> args, fault |-> fault,
     success |-> res.success, error |-> res.error, thrown |-> res.thrown]

\* ------------------------------------------------------------- validation
\* bookingSchema.parse: the message of the first issue, "" when the input is valid
RECURSIVE QuantitiesOk(_)
QuantitiesOk(foods) ==
    IF foods = <<>> THEN TRUE
    ELSE Head(foods).quantity >= 1 /\ QuantitiesOk(Tail(foods))

bookingSchemaIssue(input) ==
    IF input.eventDate < SchemaNow THEN "Event date must be in future"
    ELSE IF input.timeSlot \notin TimeSlots THEN "Invalid enum value"
    ELSE IF input.guestCount < 10 THEN "Minimum 10 guests"
    ELSE IF input.guestCount > 2000 THEN "Number must be less than or equal to 2000"
    ELSE IF ~QuantitiesOk(input.selectedFoods) THEN "Number must be greater than or equal to 1"
    ELSE IF Len(input.selectedFoods) < 1 THEN "Select at least one food item"
    ELSE ""

\* hallSchema / hallSchema.partial(): basePrice, when given, is at least 1000
hallSchemaIssue(input) ==
    IF "basePrice" \in DOMAIN input /\ input.basePrice < 1000
    THEN "Price must be at least 1000" ELSE ""

\* foodItemSchema: price, when given, is at least 1
foodItemSchemaIssue(input) ==
    IF "price" \in DOMAIN input /\ input.price < 1
    THEN "Price must be positive" ELSE ""

\* themeSchema: price, when given, is at least 1000
themeSchemaIssue(input) ==
    IF "price" \in DOMAIN input /\ input.price < 1000
    THEN "Price must be at least 1000" ELSE ""

\* --------------------------------------------------------------- bookings
\* new Date() inside a handler: every call of a behaviour is made on the day
\* the validation module was loaded
Today == DayOf(SchemaNow)

\* Math.floor(Math.random() * 10000).toString().padStart(4, "0"): four digits
padStart4(random) ==
    <<(random \div 1000) % 10, (random \div 100) % 10, (random \div 10) % 10, random % 10>>

\* generateBookingNumber: BK + today's date + the random draw as four digits
generateBookingNumber(suffix) == <<"BK", Today>> \o padStart4(suffix)

\* the reduce of calculateTotalAmount
RECURSIVE reduceFoods(_, _)
reduceFoods(sum, foods) ==
    IF foods = <<>> THEN sum
    ELSE reduceFoods(sum + Head(foods).quantity * Head(foods).price, Tail(foods))

\* a variant of calculateTotalAmount that leaves the theme out
DropsThemePrice(hallBasePrice, selectedFoods, selectedTheme) ==
    hallBasePrice + reduceFoods(0, selectedFoods)

\* calculateTotalAmount: reduce over the foods, then `selectedTheme?.price || 0`
calculateTotalAmount(hallBasePrice, selectedFoods, selectedTheme) ==
    LET foodTotal  == reduceFoods(0, selectedFoods)
        themePrice == IF selectedTheme.defined /\ selectedTheme.price # 0
                      THEN selectedTheme.price ELSE 0
    IN  hallBasePrice + foodTotal + themePrice

\* a variant of slotFilter that matches the requested slot alone
IgnoresFullDay(rowSlot, timeSlot) == rowSlot = timeSlot

\* the OR list of the availability query: the requested slot, "Full Day", and
\* for a "Full Day" request also "Morning" and "Evening"
slotFilter(rowSlot, timeSlot) ==
    \/ rowSlot = timeSlot
    \/ rowSlot = "Full Day"
    \/ (timeSlot = "Full Day" /\ rowSlot \in {"Morning", "Evening"})

\* prisma.booking.findFirst of createBooking: the rows the where clause selects
findFirstAvailability(bks, hallId, gte, lte, timeSlot) ==
    {id \in DOMAIN bks :
        /\ bks[id].hallId = hallId
        /\ bks[id].eventDate >= gte
        /\ bks[id].eventDate <= lte
        /\ bks[id].status \in ActiveStatuses
        /\ slotFilter(bks[id].timeSlot, timeSlot)}

\* the data of prisma.booking.create; eventDate is the validated Date object,
\* which the two setHours calls of the availability query have moved to the
\* last tick of its day
bookingCreateData(userId, input, totalAmount, suffix) ==
    [bookingNumber   |-> generateBookingNumber(suffix),
     userId          |-> userId,
     hallId          |-> input.hallId,
     eventDate       |-> setHoursEnd(setHoursStart(input.eventDate)),
     timeSlot        |-> input.timeSlot,
     guestCount      |-> input.guestCount,
     selectedFoods   |-> input.selectedFoods,
     selectedTheme   |-> input.selectedTheme,
     totalAmount     |-> totalAmount,
     specialRequests |-> input.specialRequests,
     status          |-> "PENDING",
     paymentStatus   |-> "PENDING",
     paymentId       |-> Null]

NextBookingId(bks) == Cardinality(DOMAIN bks) + 1
Insert(table, id, row) == [i \in DOMAIN table \cup {id} |-> IF i = id THEN row ELSE table[i]]
Remove(table, id) == [i \in DOMAIN table \ {id} |-> table[i]]

\* The three awaited store calls of createBooking, each with whether it throws.
\* prisma.booking.findFirst and the `if (availability)` after it
availabilityStep(bks, input, throws) ==
    LET gte == setHoursStart(input.eventDate)
        lte == setHoursEnd(gte)
    IN  IF throws THEN Err(StoreErrorMessage)
        ELSE IF findFirstAvailability(bks, input.hallId, gte, lte, input.timeSlot) # {}
            THEN Err("Hall is not available for selected date and time")
        ELSE Ok

\* prisma.hall.findUnique and the `if (!hall)` after it
hallStep(hls, input, throws) ==
    IF throws THEN Err(StoreErrorMessage)
    ELSE IF input.hallId \notin DOMAIN hls THEN Err("Hall not found")
    ELSE Ok

\* a variant of createStep that looks for a conflicting booking once more,
\* in the same store transaction as the insert
RechecksOnInsert(bks, userId, input, totalAmount, suffix, throws) ==
    IF throws THEN [bookings |-> bks, result |-> Err(StoreErrorMessage)]
    ELSE IF ~availabilityStep(bks, input, FALSE).success
        THEN [bookings |-> bks, result |-> availabilityStep(bks, input, FALSE)]
    ELSE [bookings |-> Insert(bks, NextBookingId(bks),
                              bookingCreateData(userId, input, totalAmount, suffix)),
          result |-> Ok]

\* prisma.booking.create and the return after it
createStep(bks, userId, input, totalAmount, suffix, throws) ==
    IF throws THEN [bookings |-> bks, result |-> Err(StoreErrorMessage)]
    ELSE [bookings |-> Insert(bks, NextBookingId(bks),
                              bookingCreateData(userId, input, totalAmount, suffix)),
          result |-> Ok]

\* createBooking run without interruption: the new booking table and the envelope.
\* fault: 1 findFirst throws, 2 hall.findUnique throws, 3 booking.create throws
createBooking(bks, hls, userId, input, suffix, fault) ==
    LET issue == bookingSchemaIssue(input)
        avail == availabilityStep(bks, input, fault = 1)
        hall  == hallStep(hls, input, fault = 2)
    IN  IF issue # "" THEN [bookings |-> bks, result |-> Err(issue)]
        ELSE IF ~avail.success THEN [bookings |-> bks, result |-> avail]
        ELSE IF ~hall.success THEN [bookings |-> bks, result |-> hall]
        ELSE createStep(bks, userId, input,
                        calculateTotalAmount(hls[input.hallId].basePrice,
                                             input.selectedFoods, input.selectedTheme),
                        suffix, fault = 3)

\* updateBookingStatus: data { status }
updateBookingStatusData(row, status) == [row EXCEPT !.status = status]

\* a variant of updatePaymentStatusData without the promotion to CONFIRMED
ForgetsToConfirm(row, paymentStatus, paymentId) ==
    [row EXCEPT !.paymentStatus = paymentStatus,
                !.paymentId = IF paymentId = Undefined THEN @ ELSE paymentId]

\* a variant of updatePaymentStatusData in which a refund clears the amount
RefundClearsTotal(row, paymentStatus, paymentId) ==
    [row EXCEPT !.paymentStatus = paymentStatus,
                !.paymentId = IF paymentId = Undefined THEN @ ELSE paymentId,
                !.status = IF paymentStatus = "PAID" THEN "CONFIRMED" ELSE @,
                !.totalAmount = IF paymentStatus = "REFUNDED" THEN 0 ELSE @]

\* updatePaymentStatus: data { paymentStatus, paymentId, ...(PAID && {status}) };
\* an undefined paymentId leaves the column as it is
updatePaymentStatusData(row, paymentStatus, paymentId) ==
    [row EXCEPT !.paymentStatus = paymentStatus,
                !.paymentId = IF paymentId = Undefined THEN @ ELSE paymentId,
                !.status = IF paymentStatus = "PAID" THEN "CONFIRMED" ELSE @]

\* a variant of cancelBookingData that appends the reason to the requests
AppendsReason(row, reason) ==
    [row EXCEPT !.status = "CANCELLED",
                !.specialRequests =
                    IF reason # Undefined /\ reason # ""
                    THEN (IF @ = Undefined THEN "" ELSE @ \o "; ")
                         \o reason \o " (Cancellation reason)"
                    ELSE "Cancelled by user"]

\* cancelBooking: data { status: "CANCELLED", specialRequests: reason ? ... : ... };
\* an undefined or empty reason is falsy
cancelBookingData(row, reason) ==
    [row EXCEPT !.status = "CANCELLED",
                !.specialRequests =
                    IF reason # Undefined /\ reason # ""
                    THEN reason \o " (Cancellation reason)"
                    ELSE "Cancelled by user"]

\* prisma.<table>.update({ where: { id }, data }): throws when no row has the
\* id or when the store fails; the handlers above catch it
updateThrows(table, id, fault) == fault = 1 \/ id \notin DOMAIN table

\* ------------------------------------------------------------------ halls
\* the fields a (partial) input gives replace the row's, the others stay
ApplyData(row, data) ==
    [f \in DOMAIN row |-> IF f \in DOMAIN data THEN data[f] ELSE row[f]]

\* prisma.hall.create({ data: validated }): isActive defaults to true
hallCreateData(input) ==
    [basePrice |-> input.basePrice,
     isActive  |-> IF "isActive" \in DOMAIN input THEN input.isActive ELSE TRUE]

\* createHall: the new hall table and the envelope (fault 1: hall.create throws)
createHall(hls, seq, input, fault) ==
    LET issue == hallSchemaIssue(input)
    IN  IF issue # "" THEN [halls |-> hls, result |-> Err(issue)]
        ELSE IF fault = 1 THEN [halls |-> hls, result |-> Err(StoreErrorMessage)]
        ELSE [halls |-> Insert(hls, seq + 1, hallCreateData(input)), result |-> Ok]

\* updateHall (fault 1: hall.update throws)
updateHall(hls, id, input, fault) ==
    LET issue == hallSchemaIssue(input)
    IN  IF issue # "" THEN [halls |-> hls, result |-> Err(issue)]
        ELSE IF updateThrows(hls, id, fault)
            THEN [halls |-> hls, result |-> Err(StoreErrorMessage)]
        ELSE [halls |-> [hls EXCEPT ![id] = ApplyData(@, input)], result |-> Ok]

\* a variant of bookingsCount that counts the CONFIRMED bookings alone
CountsConfirmedOnly(bks, id) ==
    Cardinality({b \in DOMAIN bks : bks[b].hallId = id /\ bks[b].status = "CONFIRMED"})

\* prisma.booking.count of deleteHall: the hall's CONFIRMED and PENDING bookings
bookingsCount(bks, id) ==
    Cardinality({b \in DOMAIN bks : bks[b].hallId = id /\ bks[b].status \in ActiveStatuses})

\* deleteHall (fault 1: booking.count throws, 2: hall.delete throws)
deleteHall(hls, bks, id, fault) ==
    IF fault = 1 THEN [halls |-> hls, result |-> Err("Failed to delete hall")]
    ELSE IF bookingsCount(bks, id) > 0
        THEN [halls |-> hls,
              result |-> Err("Cannot delete hall with active bookings. Mark as inactive instead.")]
    ELSE IF fault = 2 \/ id \notin DOMAIN hls
        THEN [halls |-> hls, result |-> Err("Failed to delete hall")]
    ELSE [halls |-> Remove(hls, id), result |-> Ok]

\* a variant of toggled that writes the flag back as read
KeepsFlag(flag) == flag

\* the data of the toggles' update: the flag read by findUnique, negated
toggled(flag) == ~flag

\* toggleHallStatus (fault 1: hall.findUnique throws, 2: hall.update throws)
toggleHallStatus(hls, id, fault) ==
    IF fault = 1 THEN [halls |-> hls, result |-> Err("Failed to update hall status")]
    ELSE IF id \notin DOMAIN hls THEN [halls |-> hls, result |-> Err("Hall not found")]
    ELSE IF fault = 2 THEN [halls |-> hls, result |-> Err("Failed to update hall status")]
    ELSE [halls |-> [hls EXCEPT ![id].isActive = toggled(hls[id].isActive)], result |-> Ok]

\* a variant of existingBooking without the "Morning" and "Evening" entries
\* that a "Full Day" request adds to the OR list
ExistingSameSlotOrFullDay(bks, hallId, startOfDay, endOfDay, timeSlot) ==
    {id \in DOMAIN bks :
        /\ bks[id].hallId = hallId
        /\ bks[id].eventDate >= startOfDay
        /\ bks[id].eventDate <= endOfDay
        /\ bks[id].status \in {"CONFIRMED", "PENDING"}
        /\ (bks[id].timeSlot = timeSlot \/ bks[id].timeSlot = "Full Day")}

\* a variant of existingBooking that leaves COMPLETED bookings out and nothing else
ExistingUnlessCompleted(bks, hallId, startOfDay, endOfDay, timeSlot) ==
    {id \in DOMAIN bks :
        /\ bks[id].hallId = hallId
        /\ bks[id].eventDate >= startOfDay
        /\ bks[id].eventDate <= endOfDay
        /\ bks[id].status # "COMPLETED"
        /\ \/ bks[id].timeSlot = timeSlot
           \/ bks[id].timeSlot = "Full Day"
           \/ (timeSlot = "Full Day" /\ bks[id].timeSlot \in {"Morning", "Evening"})}

\* prisma.booking.findFirst of checkHallAvailability: the rows its where clause selects
existingBooking(bks, hallId, startOfDay, endOfDay, timeSlot) ==
    {id \in DOMAIN bks :
        /\ bks[id].hallId = hallId
        /\ bks[id].eventDate >= startOfDay
        /\ bks[id].eventDate <= endOfDay
        /\ bks[id].status \in {"CONFIRMED", "PENDING"}
        /\ \/ bks[id].timeSlot = timeSlot
           \/ bks[id].timeSlot = "Full Day"
           \/ (timeSlot = "Full Day" /\ bks[id].timeSlot \in {"Morning", "Evening"})}

\* checkHallAvailability: two copies of eventDate moved to the ends of its day,
\* the query, and the envelope with isAvailable (fault 1: booking.findFirst
\* throws, and the envelope carries no isAvailable)
checkHallAvailability(bks, hallId, eventDate, timeSlot, fault) ==
    LET startOfDay == setHoursStart(eventDate)
        endOfDay   == setHoursEnd(eventDate)
        found      == existingBooking(bks, hallId, startOfDay, endOfDay, timeSlot) # {}
    IN  IF fault = 1 THEN [result |-> Err("Failed to check availability")]
        ELSE [result      |-> Ok,
              isAvailable |-> ~found,
              message     |-> IF found THEN "Hall is already booked for this date and time"
                              ELSE "Hall is available"]

\* test.ts createTestHall: no try/catch, so a throwing hall.create leaves the action
TestHall == [basePrice |-> 50000, isActive |-> TRUE]

createTestHall(hls, seq, fault) ==
    IF fault = 1 THEN [halls |-> hls, result |-> Thrown]
    ELSE [halls |-> Insert(hls, seq + 1, TestHall), result |-> Ok]

\* ----------------------------------------------------- food items, themes
\* prisma.foodItem.create / prisma.theme.create: isAvailable defaults to true
catalogCreateData(input) ==
    [price       |-> input.price,
     isAvailable |-> IF "isAvailable" \in DOMAIN input THEN input.isAvailable ELSE TRUE]

\* createFoodItem / createTheme with the schema's issue (fault 1: create throws)
catalogCreate(table, seq, input, issue, fault) ==
    IF issue # "" THEN [table |-> table, result |-> Err(issue)]
    ELSE IF fault = 1 THEN [table |-> table, result |-> Err(StoreErrorMessage)]
    ELSE [table |-> Insert(table, seq + 1, catalogCreateData(input)), result |-> Ok]

\* updateFoodItem / updateTheme (fault 1: update throws)
catalogUpdate(table, id, input, issue, fault) ==
    IF issue # "" THEN [table |-> table, result |-> Err(issue)]
    ELSE IF updateThrows(table, id, fault)
        THEN [table |-> table, result |-> Err(StoreErrorMessage)]
    ELSE [table |-> [table EXCEPT ![id] = ApplyData(@, input)], result |-> Ok]

\* deleteFoodItem / deleteTheme (fault 1: delete throws; so does a missing id)
catalogDelete(table, id, failed, fault) ==
    IF fault = 1 \/ id \notin DOMAIN table
    THEN [table |-> table, result |-> Err(failed)]
    ELSE [table |-> Remove(table, id), result |-> Ok]

\* toggleFoodItemAvailability / toggleThemeAvailability
\* (fault 1: findUnique throws, 2: update throws)
catalogToggle(table, id, notFound, fault) ==
    IF fault = 1 THEN [table |-> table, result |-> Err("Failed to update availability")]
    ELSE IF id \notin DOMAIN table THEN [table |-> table, result |-> Err(notFound)]
    ELSE IF fault = 2 THEN [table |-> table, result |-> Err("Failed to update availability")]
    ELSE [table |-> [table EXCEPT ![id].isAvailable = toggled(table[id].isAvailable)],
          result |-> Ok]

\* ------------------------------------------------- booking status actions
\* prior status of the row a call names ("" when there is no such row)
StatusOf(bks, id) == IF id \in DOMAIN bks THEN bks[id].status ELSE ""

\* updateBookingStatus (fault 1: booking.update throws)
updateBookingStatus(bks, id, status, fault) ==
    IF updateThrows(bks, id, fault)
    THEN [bookings |-> bks, result |-> Err("Failed to update booking status")]
    ELSE [bookings |-> [bks EXCEPT ![id] = updateBookingStatusData(@, status)],
          result |-> Ok]

\* updatePaymentStatus (fault 1: booking.update throws)
updatePaymentStatus(bks, id, paymentStatus, paymentId, fault) ==
    IF updateThrows(bks, id, fault)
    THEN [bookings |-> bks, result |-> Err("Failed to update payment status")]
    ELSE [bookings |-> [bks EXCEPT ![id] =
                            updatePaymentStatusData(@, paymentStatus, paymentId)],
          result |-> Ok]

\* cancelBooking (fault 1: booking.update throws)
cancelBooking(bks, id, reason, fault) ==
    IF updateThrows(bks, id, fault)
    THEN [bookings |-> bks, result |-> Err("Failed to cancel booking")]
    ELSE [bookings |-> [bks EXCEPT ![id] = cancelBookingData(@, reason)],
          result |-> Ok]

\* ------------------------------------------------------------ the actions
NoCall == [op |-> "none", args |-> [id |-> 0], fault |-> 0,
           success |-> TRUE, error |-> "", thrown |-> FALSE]

\* a call returns: it is recorded and counted
Returns(op, args, fault, res) ==
    /\ last' = Call(op, args, fault, res)
    /\ nops' = nops + 1

\* the call before this one was the same toggle of the same id, and succeeded
Repeats(op, id) == last.op = op /\ last.success /\ last.args.id = id

CreateBooking(userId, input, suffix, fault) ==
    /\ nops < MaxOps
    /\ LET r == createBooking(bookings, halls, userId, input, suffix, fault)
       IN  /\ Cardinality(DOMAIN r.bookings) <= MaxBookings
           /\ bookings' = r.bookings
           /\ Returns("createBooking", [userId |-> userId, input |-> input, suffix |-> suffix],
                      fault, r.result)
           /\ UNCHANGED <<halls, hallSeq, foodItems, foodSeq, themes, themeSeq, reqs>>

UpdateBookingStatus(id, status, fault) ==
    /\ nops < MaxOps
    /\ LET r == updateBookingStatus(bookings, id, status, fault)
       IN  /\ bookings' = r.bookings
           /\ Returns("updateBookingStatus",
                      [id |-> id, status |-> status, was |-> StatusOf(bookings, id)],
                      fault, r.result)
           /\ UNCHANGED <<halls, hallSeq, foodItems, foodSeq, themes, themeSeq, reqs>>

UpdatePaymentStatus(id, paymentStatus, paymentId, fault) ==
    /\ nops < MaxOps
    /\ LET r == updatePaymentStatus(bookings, id, paymentStatus, paymentId, fault)
       IN  /\ bookings' = r.bookings
           /\ Returns("updatePaymentStatus",
                      [id |-> id, paymentStatus |-> paymentStatus, paymentId |-> paymentId,
                       was |-> StatusOf(bookings, id)],
                      fault, r.result)
           /\ UNCHANGED <<halls, hallSeq, foodItems, foodSeq, themes, themeSeq, reqs>>

CancelBooking(id, reason, fault) ==
    /\ nops < MaxOps
    /\ LET r == cancelBooking(bookings, id, reason, fault)
       IN  /\ bookings' = r.bookings
           /\ Returns("cancelBooking",
                      [id |-> id, reason |-> reason, was |-> StatusOf(bookings, id)],
                      fault, r.result)
           /\ UNCHANGED <<halls, hallSeq, foodItems, foodSeq, themes, themeSeq, reqs>>

CreateHall(input, fault) ==
    /\ nops < MaxOps
    /\ LET r == createHall(halls, hallSeq, input, fault)
       IN  /\ hallSeq < MaxHalls
           /\ halls' = r.halls
           /\ hallSeq' = IF r.result.success THEN hallSeq + 1 ELSE hallSeq
           /\ Returns("createHall", [input |-> input], fault, r.result)
           /\ UNCHANGED <<foodItems, foodSeq, themes, themeSeq, bookings, reqs>>

CreateTestHall(fault) ==
    /\ nops < MaxOps
    /\ LET r == createTestHall(halls, hallSeq, fault)
       IN  /\ hallSeq < MaxHalls
           /\ halls' = r.halls
           /\ hallSeq' = IF r.result.success THEN hallSeq + 1 ELSE hallSeq
           /\ Returns("createTestHall", [id |-> hallSeq + 1], fault, r.result)
           /\ UNCHANGED <<foodItems, foodSeq, themes, themeSeq, bookings, reqs>>

\* test.ts getAllHalls: a read without try/catch (fault 1: hall.findMany throws)
TestGetAllHalls(fault) ==
    /\ nops < MaxOps
    /\ Returns("test.getAllHalls", [id |-> 0], fault, IF fault = 1 THEN Thrown ELSE Ok)
    /\ UNCHANGED <<halls, hallSeq, foodItems, foodSeq, themes, themeSeq, bookings, reqs>>

UpdateHall(id, input, fault) ==
    /\ nops < MaxOps
    /\ LET r == updateHall(halls, id, input, fault)
       IN  /\ halls' = r.halls
           /\ Returns("updateHall", [id |-> id, input |-> input], fault, r.result)
           /\ UNCHANGED <<hallSeq, foodItems, foodSeq, themes, themeSeq, bookings, reqs>>

DeleteHall(id, fault) ==
    /\ nops < MaxOps
    /\ LET r == deleteHall(halls, bookings, id, fault)
       IN  /\ halls' = r.halls
           /\ Returns("deleteHall", [id |-> id], fault, r.result)
           /\ UNCHANGED <<hallSeq, foodItems, foodSeq, themes, themeSeq, bookings, reqs>>

ToggleHallStatus(id, fault) ==
    /\ nops < MaxOps
    /\ LET r == toggleHallStatus(halls, id, fault)
       IN  /\ halls' = r.halls
           /\ Returns("toggleHallStatus",
                      [id |-> id, was |-> id \in DOMAIN halls /\ halls[id].isActive,
                       again |-> Repeats("toggleHallStatus", id)],
                      fault, r.result)
           /\ UNCHANGED <<hallSeq, foodItems, foodSeq, themes, themeSeq, bookings, reqs>>

\* checkHallAvailability reads and writes nothing; what it answered is recorded
CheckHallAvailability(hallId, eventDate, timeSlot, fault) ==
    /\ nops < MaxOps
    /\ LET r == checkHallAvailability(bookings, hallId, eventDate, timeSlot, fault)
           c == Call("checkHallAvailability",
                     [hallId |-> hallId, eventDate |-> eventDate, timeSlot |-> timeSlot],
                     fault, r.result)
       IN  /\ last' = IF r.result.success
                      THEN c @@ [isAvailable |-> r.isAvailable, message |-> r.message]
                      ELSE c
           /\ nops' = nops + 1
           /\ UNCHANGED <<halls, hallSeq, foodItems, foodSeq, themes, themeSeq, bookings, reqs>>

CreateFoodItem(input, fault) ==
    /\ nops < MaxOps
    /\ LET r == catalogCreate(foodItems, foodSeq, input, foodItemSchemaIssue(input), fault)
       IN  /\ foodSeq < MaxFoods
           /\ foodItems' = r.table
           /\ foodSeq' = IF r.result.success THEN foodSeq + 1 ELSE foodSeq
           /\ Returns("createFoodItem", [input |-> input], fault, r.result)
           /\ UNCHANGED <<halls, hallSeq, themes, themeSeq, bookings, reqs>>

UpdateFoodItem(id, input, fault) ==
    /\ nops < MaxOps
    /\ LET r == catalogUpdate(foodItems, id, input, foodItemSchemaIssue(input), fault)
       IN  /\ foodItems' = r.table
           /\ Returns("updateFoodItem", [id |-> id, input |-> input], fault, r.result)
           /\ UNCHANGED <<halls, hallSeq, foodSeq, themes, themeSeq, bookings, reqs>>

DeleteFoodItem(id, fault) ==
    /\ nops < MaxOps
    /\ LET r == catalogDelete(foodItems, id, "Failed to delete food item", fault)
       IN  /\ foodItems' = r.table
           /\ Returns("deleteFoodItem", [id |-> id], fault, r.result)
           /\ UNCHANGED <<halls, hallSeq, foodSeq, themes, themeSeq, bookings, reqs>>

ToggleFoodItemAvailability(id, fault) ==
    /\ nops < MaxOps
    /\ LET r == catalogToggle(foodItems, id, "Food item not found", fault)
       IN  /\ foodItems' = r.table
           /\ Returns("toggleFoodItemAvailability",
                      [id |-> id, was |-> id \in DOMAIN foodItems /\ foodItems[id].isAvailable,
                       again |-> Repeats("toggleFoodItemAvailability", id)],
                      fault, r.result)
           /\ UNCHANGED <<halls, hallSeq, foodSeq, themes, themeSeq, bookings, reqs>>

CreateTheme(input, fault) ==
    /\ nops < MaxOps
    /\ LET r == catalogCreate(themes, themeSeq, input, themeSchemaIssue(input), fault)
       IN  /\ themeSeq < MaxThemes
           /\ themes' = r.table
           /\ themeSeq' = IF r.result.success THEN themeSeq + 1 ELSE themeSeq
           /\ Returns("createTheme", [input |-> input], fault, r.result)
           /\ UNCHANGED <<halls, hallSeq, foodItems, foodSeq, bookings, reqs>>

UpdateTheme(id, input, fault) ==
    /\ nops < MaxOps
    /\ LET r == catalogUpdate(themes, id, input, themeSchemaIssue(input), fault)
       IN  /\ themes' = r.table
           /\ Returns("updateTheme", [id |-> id, input |-> input], fault, r.result)
           /\ UNCHANGED <<halls, hallSeq, foodItems, foodSeq, themeSeq, bookings, reqs>>

DeleteTheme(id, fault) ==
    /\ nops < MaxOps
    /\ LET r == catalogDelete(themes, id, "Failed to delete theme", fault)
       IN  /\ themes' = r.table
           /\ Returns("deleteTheme", [id |-> id], fault, r.result)
           /\ UNCHANGED <<halls, hallSeq, foodItems, foodSeq, themeSeq, bookings, reqs>>

ToggleThemeAvailability(id, fault) ==
    /\ nops < MaxOps
    /\ LET r == catalogToggle(themes, id, "Theme not found", fault)
       IN  /\ themes' = r.table
           /\ Returns("toggleThemeAvailability",
                      [id |-> id, was |-> id \in DOMAIN themes /\ themes[id].isAvailable,
                       again |-> Repeats("toggleThemeAvailability", id)],
                      fault, r.result)
           /\ UNCHANGED <<halls, hallSeq, foodItems, foodSeq, themeSeq, bookings, reqs>>

\* ------------------------------------- createBooking, one await at a time
\* A request in flight: where it stands (pc), whether its availability query
\* found the slot free, the booking ids in the table when that query ran
\* (seen), the amount it computed, the id of the row it inserted, whether one
\* of its store calls threw, and its envelope.
Request(userId, input, suffix) ==
    [userId |-> userId, input |-> input, suffix |-> suffix,
     pc |-> IF bookingSchemaIssue(input) # "" THEN "done" ELSE "findFirst",
     free |-> FALSE, seen |-> {}, totalAmount |-> 0, id |-> 0, faulted |-> FALSE,
     result |-> IF bookingSchemaIssue(input) # "" THEN Err(bookingSchemaIssue(input)) ELSE Ok]

\* the call arrives and bookingSchema.parse runs
Receive(userId, input, suffix) ==
    /\ Len(reqs) < MaxReqs
    /\ reqs' = Append(reqs, Request(userId, input, suffix))
    /\ UNCHANGED <<halls, hallSeq, foodItems, foodSeq, themes, themeSeq, bookings, last, nops>>

\* await prisma.booking.findFirst
FindFirst(r, throws) ==
    LET res == availabilityStep(bookings, reqs[r].input, throws)
    IN  /\ reqs[r].pc = "findFirst"
        /\ reqs' = [reqs EXCEPT ![r].pc = IF res.success THEN "findUnique" ELSE "done",
                                ![r].free = res.success,
                                ![r].seen = DOMAIN bookings,
                                ![r].faulted = throws,
                                ![r].result = res]
        /\ UNCHANGED <<halls, hallSeq, foodItems, foodSeq, themes, themeSeq, bookings, last, nops>>

\* await prisma.hall.findUnique, then calculateTotalAmount
FindUnique(r, throws) ==
    LET res == hallStep(halls, reqs[r].input, throws)
    IN  /\ reqs[r].pc = "findUnique"
        /\ reqs' = [reqs EXCEPT
                       ![r].pc = IF res.success THEN "create" ELSE "done",
                       ![r].totalAmount =
                           IF res.success
                           THEN calculateTotalAmount(halls[reqs[r].input.hallId].basePrice,
                                                     reqs[r].input.selectedFoods,
                                                     reqs[r].input.selectedTheme)
                           ELSE 0,
                       ![r].faulted = throws,
                       ![r].result = res]
        /\ UNCHANGED <<halls, hallSeq, foodItems, foodSeq, themes, themeSeq, bookings, last, nops>>

\* await prisma.booking.create, then return
Create(r, throws) ==
    LET out == createStep(bookings, reqs[r].userId, reqs[r].input, reqs[r].totalAmount,
                          reqs[r].suffix, throws)
    IN  /\ reqs[r].pc = "create"
        /\ Cardinality(DOMAIN out.bookings) <= MaxBookings
        /\ bookings' = out.bookings
        /\ reqs' = [reqs EXCEPT ![r].pc = "done",
                                ![r].id = IF out.result.success
                                          THEN NextBookingId(bookings) ELSE 0,
                                ![r].faulted = throws,
                                ![r].result = out.result]
        /\ UNCHANGED <<halls, hallSeq, foodItems, foodSeq, themes, themeSeq, last, nops>>

\* ------------------------------------------------------------- the inputs
\* what a customer orders: foods, theme, special requests, and the time of
\* day the date picker hands over
Orders ==
    {[selectedFoods |-> <<[quantity |-> 2, price |-> 200]>>,
      selectedTheme |-> Theme(3000), specialRequests |-> Undefined, tick |-> 0],
     [selectedFoods |-> <<[quantity |-> 1, price |-> 100], [quantity |-> 3, price |-> 50]>>,
      selectedTheme |-> NoTheme, specialRequests |-> "Veg only", tick |-> DayTicks - 1]}

BookingInput(hallId, eventDate, timeSlot, order) ==
    [hallId |-> hallId, eventDate |-> eventDate, timeSlot |-> timeSlot, guestCount |-> 100,
     selectedFoods |-> order.selectedFoods, selectedTheme |-> order.selectedTheme,
     specialRequests |-> order.specialRequests]

\* every hall, day and slot with the first order; the second order on hall 1, day 1
FirstOrder  == CHOOSE o \in Orders : o.tick = 0
SecondOrder == CHOOSE o \in Orders : o.tick # 0

AvailBookingInputs ==
    {BookingInput(h, DateOf(d, FirstOrder.tick), s, FirstOrder) :
        h \in 1..MaxHalls, d \in 1..MaxDay, s \in TimeSlots}

ValidBookingInputs ==
    AvailBookingInputs
    \cup {BookingInput(1, DateOf(1, SecondOrder.tick), s, SecondOrder) : s \in TimeSlots}

\* rejected by bookingSchema: a past date, no food
InvalidBookingInputs ==
    {BookingInput(1, DateOf(0, DayTicks - 1), "Morning", FirstOrder),
     [BookingInput(1, DateOf(1, 0), "Evening", FirstOrder) EXCEPT !.selectedFoods = <<>>]}

\* the requests a store fault is injected into
FaultBookingInputs ==
    {BookingInput(1, DateOf(1, 0), "Morning", FirstOrder)}

Suffixes == {0}      \* Math.floor(Math.random() * 10000), cut down to one value
Randoms == {0, 42, 9999}   \* the draws where the booking number is looked at
UserIds == {"u1"}
Reasons == {Undefined, "", "Rain"}
\* updatePaymentStatus calls: <<paymentStatus, paymentId>>
Payments == {<<"PAID", "pay_1">>, <<"PAID", Undefined>>, <<"REFUNDED", Undefined>>,
             <<"FAILED", "pay_2">>}
HallInputs == {[basePrice |-> 1000], [basePrice |-> 999],
               [basePrice |-> 2000, isActive |-> FALSE]}
HallPatches == {[basePrice |-> 2000], [isActive |-> FALSE], [basePrice |-> 999]}
FoodInputs == {[price |-> 200], [price |-> 0]}
FoodPatches == {[price |-> 250], [isAvailable |-> FALSE]}
ThemeInputs == {[price |-> 3000], [price |-> 999]}
ThemePatches == {[price |-> 3500], [isAvailable |-> FALSE]}

\* ------------------------------------------------------ the specification
\* The store after some halls were set up: none, the test hall, or the test
\* hall and a hall created by createHall({basePrice: 1000, ...}).
SeededHalls(k) ==
    [id \in 1..k |-> IF id = 1 THEN TestHall ELSE hallCreateData([basePrice |-> 1000])]

Init ==
    /\ \E k \in 1..2 : halls = SeededHalls(k) /\ hallSeq = k
    /\ foodItems = <<>> /\ foodSeq = 0
    /\ themes = <<>> /\ themeSeq = 0
    /\ bookings = <<>>
    /\ reqs = <<>>
    /\ last = NoCall
    /\ nops = 0

BookingActions ==
    \/ \E u \in UserIds, i \in ValidBookingInputs \cup InvalidBookingInputs, x \in Suffixes :
          CreateBooking(u, i, x, 0)
    \/ \E u \in UserIds, i \in FaultBookingInputs, f \in 1..3 : CreateBooking(u, i, 0, f)
    \/ \E id \in 1..MaxBookings, st \in BookingStatuses : UpdateBookingStatus(id, st, 0)
    \/ UpdateBookingStatus(1, "CONFIRMED", 1)
    \/ \E id \in 1..MaxBookings, p \in Payments : UpdatePaymentStatus(id, p[1], p[2], 0)
    \/ UpdatePaymentStatus(1, "PAID", "pay_1", 1)
    \/ \E id \in 1..MaxBookings, rs \in Reasons : CancelBooking(id, rs, 0)
    \/ CancelBooking(1, Undefined, 1)

HallActions ==
    \/ \E i \in HallInputs : CreateHall(i, 0)
    \/ CreateHall([basePrice |-> 1000], 1)
    \/ \E f \in 0..1 : CreateTestHall(f)
    \/ \E f \in 0..1 : TestGetAllHalls(f)
    \/ \E id \in 1..MaxHalls, i \in HallPatches : UpdateHall(id, i, 0)
    \/ UpdateHall(1, [isActive |-> FALSE], 1)
    \/ \E id \in 1..MaxHalls : DeleteHall(id, 0)
    \/ \E f \in 1..2 : DeleteHall(1, f)
    \/ \E id \in 1..MaxHalls : ToggleHallStatus(id, 0)
    \/ \E f \in 1..2 : ToggleHallStatus(1, f)

CatalogActions ==
    \/ \E i \in FoodInputs : CreateFoodItem(i, 0)
    \/ CreateFoodItem([price |-> 200], 1)
    \/ \E id \in 1..MaxFoods, i \in FoodPatches : UpdateFoodItem(id, i, 0)
    \/ UpdateFoodItem(1, [price |-> 250], 1)
    \/ \E id \in 1..MaxFoods, f \in 0..1 : DeleteFoodItem(id, f)
    \/ \E id \in 1..MaxFoods, f \in 0..2 : ToggleFoodItemAvailability(id, f)
    \/ \E i \in ThemeInputs : CreateTheme(i, 0)
    \/ CreateTheme([price |-> 3000], 1)
    \/ \E id \in 1..MaxThemes, i \in ThemePatches : UpdateTheme(id, i, 0)
    \/ UpdateTheme(1, [price |-> 3500], 1)
    \/ \E id \in 1..MaxThemes, f \in 0..1 : DeleteTheme(id, f)
    \/ \E id \in 1..MaxThemes, f \in 0..2 : ToggleThemeAvailability(id, f)

\* the booking ledger and the hall directory
Next == BookingActions \/ HallActions

Spec == Init /\ [][Next]_vars

\* Availability alone: bookings are created, change status and lose their hall.
NextAvail ==
    \/ \E u \in UserIds, i \in AvailBookingInputs \cup InvalidBookingInputs, x \in Suffixes :
          CreateBooking(u, i, x, 0)
    \/ \E u \in UserIds, i \in FaultBookingInputs, f \in 1..3 : CreateBooking(u, i, 0, f)
    \/ \E id \in 1..MaxBookings, st \in BookingStatuses : UpdateBookingStatus(id, st, 0)
    \/ \E id \in 1..MaxHalls : DeleteHall(id, 0)

SpecAvail == Init /\ [][NextAvail]_vars

\* Availability asked and booked: the bookings of hall 1 are created, change
\* status and are cancelled, and checkHallAvailability is asked about every
\* hall, day and slot at the first tick of the day, and at the last tick of day 1.
CheckDates == {DateOf(d, 0) : d \in 1..MaxDay} \cup {DateOf(1, DayTicks - 1)}

CheckBookingInputs == {v \in AvailBookingInputs : v.hallId = 1}

NextCheck ==
    \/ \E u \in UserIds, i \in CheckBookingInputs, x \in Suffixes : CreateBooking(u, i, x, 0)
    \/ \E u \in UserIds, i \in FaultBookingInputs, f \in 1..3 : CreateBooking(u, i, 0, f)
    \/ \E u \in UserIds : CreateBooking(u, BookingInput(MaxHalls, DateOf(1, 0), "Morning", FirstOrder), 0, 0)
    \/ \E id \in 1..MaxBookings, st \in BookingStatuses : UpdateBookingStatus(id, st, 0)
    \/ \E id \in 1..MaxBookings : CancelBooking(id, Undefined, 0)
    \/ \E h \in 1..MaxHalls, d \in CheckDates, s \in TimeSlots : CheckHallAvailability(h, d, s, 0)
    \/ CheckHallAvailability(1, DateOf(1, 0), "Morning", 1)

SpecCheck == Init /\ [][NextCheck]_vars

\* Booking numbers: bookings of hall 1 are created, each with its own random draw.
NextNumbers ==
    \E u \in UserIds, i \in CheckBookingInputs, x \in Randoms : CreateBooking(u, i, x, 0)

SpecNumbers == Init /\ [][NextNumbers]_vars

\* Every component at once: the catalogs and the hall directory in full, the
\* booking ledger on hall 1 and day 1.
CoreBookingInputs ==
    {BookingInput(1, DateOf(1, SecondOrder.tick), s, SecondOrder) : s \in {"Morning", "Full Day"}}
    \cup {BookingInput(1, DateOf(1, FirstOrder.tick), "Evening", FirstOrder)}

CoreBookingActions ==
    \/ \E u \in UserIds, i \in CoreBookingInputs \cup InvalidBookingInputs, x \in Suffixes :
          CreateBooking(u, i, x, 0)
    \/ \E u \in UserIds, i \in FaultBookingInputs, f \in 1..3 : CreateBooking(u, i, 0, f)
    \/ UpdateBookingStatus(1, "CONFIRMED", 1)
    \/ UpdatePaymentStatus(1, "PAID", "pay_1", 1)
    \/ CancelBooking(1, Undefined, 1)
    \/ \E id \in 1..MaxBookings, st \in BookingStatuses : UpdateBookingStatus(id, st, 0)
    \/ \E id \in 1..MaxBookings, p \in Payments : UpdatePaymentStatus(id, p[1], p[2], 0)
    \/ \E id \in 1..MaxBookings, rs \in Reasons : CancelBooking(id, rs, 0)

NextAll == CoreBookingActions \/ HallActions \/ CatalogActions

SpecAll == Init /\ [][NextAll]_vars

\* createBooking requests that interleave at their awaits
NextConc ==
    \/ \E u \in UserIds, i \in ValidBookingInputs \cup InvalidBookingInputs, x \in Suffixes :
          Receive(u, i, x)
    \/ \E r \in DOMAIN reqs, t \in BOOLEAN :
          (t => reqs[r].input \in FaultBookingInputs) /\ FindFirst(r, t)
    \/ \E r \in DOMAIN reqs, t \in BOOLEAN :
          (t => reqs[r].input \in FaultBookingInputs) /\ FindUnique(r, t)
    \/ \E r \in DOMAIN reqs, t \in BOOLEAN :
          (t => reqs[r].input \in FaultBookingInputs) /\ Create(r, t)

SpecConc == Init /\ [][NextConc]_vars

\* =================================================================== claims
\* a step of Next: some server action has just returned
Called(op) == last'.op = op /\ nops' = nops + 1

\* the overlap rule of the data model: "Full Day" conflicts with every slot,
\* "Morning" and "Evening" only with the same slot or "Full Day"
SlotsConflict(s1, s2) == s1 = s2 \/ s1 = "Full Day" \/ s2 = "Full Day"

IsActive(row) == row.status = "CONFIRMED" \/ row.status = "PENDING"

\* the active bookings of table bks that block hall h on the day of date t for slot s
Blockers(bks, h, t, s) ==
    {b \in DOMAIN bks :
        /\ IsActive(bks[b])
        /\ bks[b].hallId = h
        /\ DayOf(bks[b].eventDate) = DayOf(t)
        /\ SlotsConflict(bks[b].timeSlot, s)}

\* C1: in every reachable state no two distinct CONFIRMED or PENDING bookings
\* on the same hall and the same calendar date have conflicting time slots.
C1_NoDoubleBooking ==
    \A b1, b2 \in DOMAIN bookings :
        (/\ b1 # b2
         /\ IsActive(bookings[b1]) /\ IsActive(bookings[b2])
         /\ bookings[b1].hallId = bookings[b2].hallId
         /\ DayOf(bookings[b1].eventDate) = DayOf(bookings[b2].eventDate))
        => ~SlotsConflict(bookings[b1].timeSlot, bookings[b2].timeSlot)

\* C2: a createBooking with valid input for an existing hall, whose store calls
\* all answer, is refused with "Hall is not available for selected date and
\* time" and adds no booking when an active booking on that hall and day
\* conflicts with the requested slot; otherwise it returns success and adds
\* exactly one booking.
C2_Step ==
    LET i == last'.args.input
    IN  (/\ Called("createBooking")
         /\ last'.fault = 0
         /\ bookingSchemaIssue(i) = ""
         /\ i.hallId \in DOMAIN halls)
        => IF Blockers(bookings, i.hallId, i.eventDate, i.timeSlot) # {}
           THEN /\ ~last'.success
                /\ last'.error = "Hall is not available for selected date and time"
                /\ bookings' = bookings
           ELSE /\ last'.success
                /\ Cardinality(DOMAIN bookings') = Cardinality(DOMAIN bookings) + 1
                /\ \A b \in DOMAIN bookings : b \in DOMAIN bookings' /\ bookings'[b] = bookings[b]

C2_CreateBookingAvailability == [][C2_Step]_vars

\* an existing "Full Day" booking has just blocked a "Morning" request
C2_Witness ==
    /\ last.op = "createBooking" /\ last.fault = 0
    /\ last.error = "Hall is not available for selected date and time"
    /\ last.args.input.timeSlot = "Morning"
    /\ \E b \in DOMAIN bookings :
          /\ bookings[b].timeSlot = "Full Day" /\ IsActive(bookings[b])
          /\ bookings[b].hallId = last.args.input.hallId
          /\ DayOf(bookings[b].eventDate) = DayOf(last.args.input.eventDate)

\* the sum over the foods of quantity x price
FoodSum(foods) ==
    LET S[n \in 0..Len(foods)] ==
            IF n = 0 THEN 0 ELSE S[n - 1] + foods[n].quantity * foods[n].price
    IN  S[Len(foods)]

\* C3: the booking a successful createBooking has just stored carries
\* totalAmount = the hall's basePrice + the sum over selectedFoods of
\* quantity x price + the theme's price (0 without a theme).
C3_TotalAmount ==
    (last.op = "createBooking" /\ last.success)
    => LET i   == last.args.input
           row == bookings[Cardinality(DOMAIN bookings)]
       IN  /\ row.hallId = i.hallId
           /\ row.totalAmount =
                halls[i.hallId].basePrice + FoodSum(i.selectedFoods)
                + (IF i.selectedTheme.defined THEN i.selectedTheme.price ELSE 0)

\* basePrice 50000 with 2 x 200 food and a 3000 theme has given 53400
C3_Witness ==
    /\ last.op = "createBooking" /\ last.success
    /\ halls[last.args.input.hallId].basePrice = 50000
    /\ last.args.input.selectedFoods = <<[quantity |-> 2, price |-> 200]>>
    /\ last.args.input.selectedTheme = Theme(3000)
    /\ bookings[Cardinality(DOMAIN bookings)].totalAmount = 53400

\* C4: a deleteHall whose store calls all answer is refused with "Cannot
\* delete hall with active bookings. Mark as inactive instead." and changes
\* nothing when the hall has a CONFIRMED or PENDING booking; on an existing
\* hall without one it returns success and removes that hall alone.
C4_Step ==
    LET id == last'.args.id
    IN  (Called("deleteHall") /\ last'.fault = 0)
        => IF \E b \in DOMAIN bookings : bookings[b].hallId = id /\ IsActive(bookings[b])
           THEN /\ ~last'.success
                /\ last'.error = "Cannot delete hall with active bookings. Mark as inactive instead."
                /\ halls' = halls /\ bookings' = bookings
           ELSE id \in DOMAIN halls
                => /\ last'.success
                   /\ DOMAIN halls' = DOMAIN halls \ {id}
                   /\ \A h \in DOMAIN halls' : halls'[h] = halls[h]
                   /\ bookings' = bookings

C4_DeleteHall == [][C4_Step]_vars

\* a deleteHall has just been refused for a hall that exists and has a PENDING booking
C4_Witness ==
    /\ last.op = "deleteHall" /\ ~last.success
    /\ last.error = "Cannot delete hall with active bookings. Mark as inactive instead."
    /\ last.args.id \in DOMAIN halls
    /\ \E b \in DOMAIN bookings :
          bookings[b].hallId = last.args.id /\ bookings[b].status = "PENDING"

\* C5: after a successful updatePaymentStatus(id, "PAID") the booking has
\* paymentStatus PAID and status CONFIRMED, whatever its status was.
C5_PaidConfirms ==
    (last.op = "updatePaymentStatus" /\ last.success /\ last.args.paymentStatus = "PAID")
    => /\ bookings[last.args.id].paymentStatus = "PAID"
       /\ bookings[last.args.id].status = "CONFIRMED"

\* a CANCELLED booking has just been paid
C5_Witness ==
    /\ last.op = "updatePaymentStatus" /\ last.success
    /\ last.args.paymentStatus = "PAID" /\ last.args.was = "CANCELLED"
    /\ bookings[last.args.id].status = "CONFIRMED"

\* C7: no server action lets a failure of a store call escape as an
\* exception: a call whose store call failed returns success:false with an
\* error string.
C7_ErrorBoundary ==
    /\ ~last.thrown
    /\ last.fault > 0 => (~last.success /\ last.error # "")

\* what cancelBooking(id, reason) leaves in specialRequests
CancelText(reason) ==
    IF reason = Undefined \/ reason = "" THEN "Cancelled by user"
    ELSE reason \o " (Cancellation reason)"

\* C9: a successful cancelBooking(id, reason) sets the booking's status to
\* CANCELLED and its specialRequests to "<reason> (Cancellation reason)", or
\* to "Cancelled by user" without a reason, and changes neither its
\* paymentStatus, paymentId, totalAmount, hallId, eventDate, timeSlot nor any
\* other booking.
C9_Step ==
    LET id == last'.args.id
    IN  (Called("cancelBooking") /\ last'.success)
        => /\ DOMAIN bookings' = DOMAIN bookings
           /\ bookings'[id].status = "CANCELLED"
           /\ bookings'[id].specialRequests = CancelText(last'.args.reason)
           /\ bookings'[id].paymentStatus = bookings[id].paymentStatus
           /\ bookings'[id].paymentId = bookings[id].paymentId
           /\ bookings'[id].totalAmount = bookings[id].totalAmount
           /\ bookings'[id].hallId = bookings[id].hallId
           /\ bookings'[id].eventDate = bookings[id].eventDate
           /\ bookings'[id].timeSlot = bookings[id].timeSlot
           /\ \A b \in DOMAIN bookings \ {id} : bookings'[b] = bookings[b]

C9_CancelBooking == [][C9_Step]_vars

\* a booking that asked for "Veg only" has just been cancelled for rain, next
\* to a second booking
C9_Witness ==
    /\ last.op = "cancelBooking" /\ last.success /\ last.args.reason = "Rain"
    /\ bookings[last.args.id].selectedFoods = SecondOrder.selectedFoods
    /\ bookings[last.args.id].specialRequests = "Rain (Cancellation reason)"
    /\ Cardinality(DOMAIN bookings) = 2

ToggleOps == {"toggleHallStatus", "toggleFoodItemAvailability", "toggleThemeAvailability"}

\* the flag a toggle is about, in the given tables
FlagOf(op, id, hls, foods, thms) ==
    CASE op = "toggleHallStatus" -> hls[id].isActive
      [] op = "toggleFoodItemAvailability" -> foods[id].isAvailable
      [] op = "toggleThemeAvailability" -> thms[id].isAvailable

\* C6: a successful toggleHallStatus, toggleFoodItemAvailability or
\* toggleThemeAvailability leaves the entity's flag negated, and the second of
\* two successful calls in a row on the same id leaves it as it was before
\* the first.
C6_Step ==
    \A op \in ToggleOps :
        (Called(op) /\ last'.success)
        => LET id == last'.args.id
           IN  /\ FlagOf(op, id, halls', foodItems', themes')
                    = ~FlagOf(op, id, halls, foodItems, themes)
               /\ (last.op = op /\ last.success /\ last.args.id = id)
                    => FlagOf(op, id, halls', foodItems', themes') = last.args.was

C6_ToggleTwice == [][C6_Step]_vars

\* the same food item or theme has just been toggled twice in a row
C6_Witness ==
    /\ last.op \in {"toggleFoodItemAvailability", "toggleThemeAvailability"}
    /\ last.success /\ last.args.again
    /\ FlagOf(last.op, last.args.id, halls, foodItems, themes) = ~last.args.was

\* C8: no step changes the totalAmount of a stored booking, and no step
\* removes a booking.
C8_Step ==
    \A b \in DOMAIN bookings :
        b \in DOMAIN bookings' /\ bookings'[b].totalAmount = bookings[b].totalAmount

C8_TotalAmountFrozen == [][C8_Step]_vars

\* an updateHall has just changed the basePrice of a hall with a booking,
\* whose totalAmount is still the one computed from the old price
C8_Witness ==
    /\ last.op = "updateHall" /\ last.success /\ "basePrice" \in DOMAIN last.args.input
    /\ \E b \in DOMAIN bookings :
          /\ bookings[b].hallId = last.args.id
          /\ bookings[b].totalAmount #
                halls[last.args.id].basePrice + FoodSum(bookings[b].selectedFoods)
                + (IF bookings[b].selectedTheme.defined
                   THEN bookings[b].selectedTheme.price ELSE 0)

\* two requests for the same hall and day with conflicting slots
Rivals(q1, q2) ==
    /\ q1.input.hallId = q2.input.hallId
    /\ DayOf(q1.input.eventDate) = DayOf(q2.input.eventDate)
    /\ SlotsConflict(q1.input.timeSlot, q2.input.timeSlot)

\* the request's availability query found the slot free, its hall exists and
\* none of its store calls threw
PassedCheck(q) == q.free /\ ~q.faulted /\ q.input.hallId \in DOMAIN halls

\* C10: when two createBooking requests for the same hall and day with
\* conflicting slots have both run their availability query before either
\* has inserted, both return success and their two bookings are stored, both
\* PENDING.
C10_DoubleBooking ==
    \A r1, r2 \in DOMAIN reqs :
        (/\ r1 # r2
         /\ Rivals(reqs[r1], reqs[r2])
         /\ reqs[r1].pc = "done" /\ reqs[r2].pc = "done"
         /\ PassedCheck(reqs[r1]) /\ PassedCheck(reqs[r2])
         /\ reqs[r1].id \notin reqs[r2].seen /\ reqs[r2].id \notin reqs[r1].seen)
        => /\ reqs[r1].result.success /\ reqs[r2].result.success
           /\ reqs[r1].id # reqs[r2].id
           /\ {reqs[r1].id, reqs[r2].id} \subseteq DOMAIN bookings
           /\ \A b \in {reqs[r1].id, reqs[r2].id} :
                 bookings[b].status = "PENDING"
           /\ SlotsConflict(bookings[reqs[r1].id].timeSlot, bookings[reqs[r2].id].timeSlot)
           /\ bookings[reqs[r1].id].hallId = bookings[reqs[r2].id].hallId
           /\ bookings[reqs[r1].id].eventDate = bookings[reqs[r2].id].eventDate

\* a "Full Day" and a "Morning" request for the same hall and day have both
\* returned success, and both bookings are stored
C10_Witness ==
    /\ Len(reqs) = 2
    /\ reqs[1].pc = "done" /\ reqs[2].pc = "done"
    /\ reqs[1].result.success /\ reqs[2].result.success
    /\ reqs[1].input.timeSlot = "Full Day" /\ reqs[2].input.timeSlot = "Morning"
    /\ Rivals(reqs[1], reqs[2])
    /\ ~C1_NoDoubleBooking

\* C11: in every reachable state every CONFIRMED or PENDING booking references
\* a hall that still exists: no hall is removed while it has an active booking
\* and no booking on a removed hall becomes active.
C11_ActiveBookingsHaveHalls ==
    \A b \in DOMAIN bookings :
        IsActive(bookings[b]) => bookings[b].hallId \in DOMAIN halls

\* C12: for every hall id, date and slot, checkHallAvailability returns
\* isAvailable true exactly when a createBooking with valid input for the same
\* hall, date and slot, made in the same store state, would not return "Hall
\* is not available for selected date and time".
C12_CheckAgreesWithCreate ==
    (last.op = "checkHallAvailability" /\ last.success)
    => LET a == last.args
           r == createBooking(bookings, halls, "u1",
                              BookingInput(a.hallId, a.eventDate, a.timeSlot, FirstOrder), 0, 0)
       IN  last.isAvailable
           <=> r.result.error # "Hall is not available for selected date and time"

\* a "Full Day" question asked at the first tick of a day has just been
\* answered "not available" because of an active "Morning" booking of that day
C12_Witness ==
    /\ last.op = "checkHallAvailability" /\ last.success /\ ~last.isAvailable
    /\ last.args.timeSlot = "Full Day"
    /\ last.args.eventDate % DayTicks = 0
    /\ \E b \in DOMAIN bookings :
          /\ bookings[b].timeSlot = "Morning" /\ IsActive(bookings[b])
          /\ bookings[b].hallId = last.args.hallId
          /\ bookings[b].eventDate # last.args.eventDate
          /\ DayOf(bookings[b].eventDate) = DayOf(last.args.eventDate)

\* C13: bookingNumber is unique: in every reachable state no two stored
\* bookings have the same bookingNumber.
C13_BookingNumberUnique ==
    \A b1, b2 \in DOMAIN bookings :
        b1 # b2 => bookings[b1].bookingNumber # bookings[b2].bookingNumber

\* the bookings of table bks, of any status, on hall h and the day of date t
\* whose slot conflicts with s
Conflicting(bks, h, t, s) ==
    {b \in DOMAIN bks :
        /\ bks[b].hallId = h
        /\ DayOf(bks[b].eventDate) = DayOf(t)
        /\ SlotsConflict(bks[b].timeSlot, s)}

\* every booking conflicting with (h, t, s) is CANCELLED or COMPLETED
Released(bks, h, t, s) ==
    \A b \in Conflicting(bks, h, t, s) : bks[b].status \in {"CANCELLED", "COMPLETED"}

\* C14: only CONFIRMED and PENDING bookings block a slot: when every booking
\* conflicting with (hall, date, slot) is CANCELLED or COMPLETED, an answered
\* checkHallAvailability for it returns isAvailable true, and a createBooking
\* for it with valid input, an existing hall and store calls that all answer
\* returns success.
C14_Step ==
    /\ (/\ Called("checkHallAvailability") /\ last'.success
        /\ Released(bookings, last'.args.hallId, last'.args.eventDate, last'.args.timeSlot))
       => last'.isAvailable
    /\ (/\ Called("createBooking") /\ last'.fault = 0
        /\ bookingSchemaIssue(last'.args.input) = ""
        /\ last'.args.input.hallId \in DOMAIN halls
        /\ Released(bookings, last'.args.input.hallId, last'.args.input.eventDate,
                    last'.args.input.timeSlot))
       => /\ last'.success
          /\ Cardinality(DOMAIN bookings') = Cardinality(DOMAIN bookings) + 1

C14_OnlyActiveBlock == [][C14_Step]_vars

\* a createBooking has just succeeded on a slot that a booking cancelled by
\* cancelBooking still conflicts with
C14_Witness ==
    /\ last.op = "createBooking" /\ last.success
    /\ \E b \in DOMAIN bookings :
          /\ b # Cardinality(DOMAIN bookings)
          /\ b \in Conflicting(bookings, last.args.input.hallId, last.args.input.eventDate,
                                last.args.input.timeSlot)
          /\ bookings[b].status = "CANCELLED"
          /\ bookings[b].specialRequests = "Cancelled by user"

====
